---- MODULE Spec2Model ----
(***************************************************************************)
(* Model of examples/sqlalchemy_flask.py: the SQLAlchemy                   *)
(* "before_cursor_execute" hook that sets the change-logs context of a     *)
(* database session before an INSERT, UPDATE or DELETE runs on it.         *)
(*                                                                         *)
(* A statement text is a tuple of one-character strings, so that the       *)
(* regular expression of the classifier is computed on the characters.     *)
(* A thread's stack holds one frame per conn.execute() call in progress:   *)
(* the application's statement at the bottom, and above it the statement   *)
(* the hook itself executes (which goes through the hook again).           *)
(***************************************************************************)
EXTENDS Integers, Sequences, FiniteSets, TLC

\* ------------------------------------------------------------------ bounds
\* statements the application may start, over all connections
MaxStmts == 5
\* nesting of conn.execute() calls after which the interpreter gives up
MaxDepth == 3
\* statements the application may start when two threads run at once
MaxConcStmts == 2
\* statements the application may start under a customized provider
MaxDictStmts == 2
\* statements the application may start when it may be cancelled
MaxCancelStmts == 2
\* statements the application may start when connections come and go
MaxLifeStmts == 3
\* statements the application may start on pooled connections
MaxPoolStmts == 2
\* pieces a statement text given to the classifier is made of
MaxTokens == 3
\* statements the application may start when threads share a connection
MaxRaceStmts == 2

Threads == {"t1", "t2"}
Conns == {"c1", "c2"}

\* ------------------------------------------------------- statement texts
Q_INSERT == <<"I","N","S","E","R","T"," ","I","N","T","O"," ","t">>
Q_SELECT == <<"S","E","L","E","C","T"," ","*"," ","F","R","O","M"," ","t">>
Q_INSERTED == <<"s","e","l","e","c","t"," ","i","n","s","e","r","t","e","d","_","a","t">>

\* the statements the application submits
Queries == {Q_INSERT, Q_SELECT, Q_INSERTED}

\* the statement of the call written with a trailing comment:
\* "select change_logs_set_context(%s, %s) -- update"
SetContextQueryCommented ==
  <<"s","e","l","e","c","t"," ",
    "c","h","a","n","g","e","_","l","o","g","s","_","s","e","t","_",
    "c","o","n","t","e","x","t","(","%","s",","," ","%","s",")",
    " ","-","-"," ","u","p","d","a","t","e">>

\* "select change_logs_set_context(%s, %s)"
SetContextQuery ==
  <<"s","e","l","e","c","t"," ",
    "c","h","a","n","g","e","_","l","o","g","s","_","s","e","t","_",
    "c","o","n","t","e","x","t","(","%","s",","," ","%","s",")">>

\* ------------------------------------------------------------ classifier
LowerOf ==
  [ch \in {"A","B","C","D","E","F","G","H","I","J","K","L","M","N","O","P",
           "Q","R","S","T","U","V","W","X","Y","Z"} |->
     CASE ch = "A" -> "a" [] ch = "B" -> "b" [] ch = "C" -> "c" [] ch = "D" -> "d"
       [] ch = "E" -> "e" [] ch = "F" -> "f" [] ch = "G" -> "g" [] ch = "H" -> "h"
       [] ch = "I" -> "i" [] ch = "J" -> "j" [] ch = "K" -> "k" [] ch = "L" -> "l"
       [] ch = "M" -> "m" [] ch = "N" -> "n" [] ch = "O" -> "o" [] ch = "P" -> "p"
       [] ch = "Q" -> "q" [] ch = "R" -> "r" [] ch = "S" -> "s" [] ch = "T" -> "t"
       [] ch = "U" -> "u" [] ch = "V" -> "v" [] ch = "W" -> "w" [] ch = "X" -> "x"
       [] ch = "Y" -> "y" [] ch = "Z" -> "z"]

\* re.I: letters are compared without their case
Lower(ch) == IF ch \in DOMAIN LowerOf THEN LowerOf[ch] ELSE ch

\* \w of the regular expression: letters, digits and the underscore
WordChars ==
  {"a","b","c","d","e","f","g","h","i","j","k","l","m","n","o","p","q","r",
   "s","t","u","v","w","x","y","z","0","1","2","3","4","5","6","7","8","9","_"}

IsWordAt(s, p) == p >= 1 /\ p <= Len(s) /\ Lower(s[p]) \in WordChars

\* the pattern written without its \b
BoundaryAnywhere(s, p) == TRUE

\* \b before position p: exactly one of s[p-1], s[p] is a word character
Boundary(s, p) == IsWordAt(s, p - 1) # IsWordAt(s, p)

\* (insert|update|delete)
Keywords ==
  { <<"i","n","s","e","r","t">>,
    <<"u","p","d","a","t","e">>,
    <<"d","e","l","e","t","e">> }

MatchAt(s, p, k) ==
  /\ p + Len(k) - 1 <= Len(s)
  /\ Boundary(s, p)
  /\ \A j \in 1..Len(k) : Lower(s[p + j - 1]) = k[j]
  /\ Boundary(s, p + Len(k))

\* _insert_update_delete_re.search(query) is not None
IsInsertOrUpdate(query) ==
  \E p \in 1..Len(query) : \E k \in Keywords : MatchAt(query, p, k)

\* ------------------------------------------------------ context provider
\* What get_change_logs_context() reads: whether a Flask request context is
\* active (and its user and endpoint), and whether a background task is.
Envs ==
  { [req |-> FALSE, user |-> "None", endpoint |-> "-",  task |-> FALSE],
    [req |-> TRUE,  user |-> "42",   endpoint |-> "/x", task |-> FALSE],
    [req |-> TRUE,  user |-> "7",    endpoint |-> "/x", task |-> FALSE],
    [req |-> TRUE,  user |-> "42",   endpoint |-> "/x", task |-> TRUE] }

\* dict.update(): a key already present keeps its place and takes the new
\* value, a new key is appended (dicts keep insertion order)
RECURSIVE DictUpdate(_, _)
DictUpdate(d, kvs) ==
  IF kvs = <<>> THEN d
  ELSE LET kv == Head(kvs)
           d1 == IF \E i \in 1..Len(d) : d[i][1] = kv[1]
                 THEN [i \in 1..Len(d) |-> IF d[i][1] = kv[1] THEN kv ELSE d[i]]
                 ELSE Append(d, kv)
       IN  DictUpdate(d1, Tail(kvs))

get_change_logs_context(e) ==
  LET current_user_id == IF e.req THEN e.user ELSE "None"
      c0 == <<>>
      c1 == IF e.req
            THEN DictUpdate(c0, << <<"endpoint", e.endpoint>>, <<"rid", "r1">> >>)
            ELSE c0
      c2 == IF e.task
            THEN DictUpdate(c1, << <<"task", "job">>, <<"tid", "j1">> >>)
            ELSE c1
  IN  <<current_user_id, c2>>

\* json.dumps() of a dict of strings: the items in insertion order,
\* separated by ", ", key and value separated by ": "
RECURSIVE JsonItems(_)
JsonItems(d) ==
  IF d = <<>> THEN ""
  ELSE "\"" \o Head(d)[1] \o "\": \"" \o Head(d)[2] \o "\""
       \o (IF Tail(d) = <<>> THEN "" ELSE ", " \o JsonItems(Tail(d)))

JsonDumps(d) == "{" \o JsonItems(d) \o "}"

\* ------------------------------------------------------------------ state
VARIABLES
  cxn_current_context,  \* _cxn_current_context: connection -> (user_id, str)
  session,              \* the context set in the database session of a connection
  stack,                \* thread -> frames of the conn.execute() calls in progress
  stmts,                \* connection -> statements the application started on it
  clean,                \* connection -> nothing has raised on it so far
  \* of a connection, as long as nothing has raised on it:
  ncalls,               \* the change_logs_set_context calls issued on it
  diffs,                \* per write after the first: did its context differ
  last,                 \* the context computed by the latest write
  pool                  \* the pool's and the callers' view of the connections:
                        \*   holder: connection -> the logical caller (thread)
                        \*           that has checked it out, or "pool"
                        \*   txn:    connection -> a transaction is open on it
                        \*   putby:  connection -> the caller whose hook
                        \*           invocation stored its cache entry
                        \*   met:    thread -> the caller that had stored the
                        \*           entry its latest comparison read

vars ==
  <<cxn_current_context, session, stack, stmts, ncalls, diffs, last, clean, pool>>

\* no entry in the cache (dict.get() gives None), no context in the session
NoEntry == <<>>

\* `before` is the cache entry of the connection when the call began
NewFrame(c, q, a) ==
  [conn |-> c, query |-> q, args |-> a, pc |-> "classify",
   before |-> cxn_current_context[c],
   user_id |-> "-", change_context |-> <<>>, change_context_str |-> "-",
   seen |-> <<"unread">>,
   prov |-> "none", puts |-> 0, calls |-> 0, res |-> "none"]

Top(t) == stack[t][Len(stack[t])]

Busy(c) == \E t \in Threads : \E i \in 1..Len(stack[t]) : stack[t][i].conn = c

RECURSIVE SumOver(_, _)
SumOver(f, S) ==
  IF S = {} THEN 0
  ELSE LET x == CHOOSE y \in S : TRUE IN f[x] + SumOver(f, S \ {x})

Started == SumOver(stmts, Conns)

Init ==
  /\ cxn_current_context = [c \in Conns |-> NoEntry]
  /\ session = [c \in Conns |-> NoEntry]
  /\ stack = [t \in Threads |-> <<>>]
  /\ stmts = [c \in Conns |-> 0]
  /\ ncalls = [c \in Conns |-> 0]
  /\ diffs = [c \in Conns |-> <<>>]
  /\ last = [c \in Conns |-> NoEntry]
  /\ clean = [c \in Conns |-> TRUE]
  /\ pool = [holder |-> [c \in Conns |-> "pool"],
             txn |-> [c \in Conns |-> FALSE],
             putby |-> [c \in Conns |-> "nobody"],
             met |-> [t \in Threads |-> "nobody"]]

\* ------------------------------------------------- bookkeeping of a run
\* An exception leaves every conn.execute() of the thread: nothing in the
\* hook catches it. The application's frame records how it ended.
Unwind(st, how) ==
  LET f == st[1]
  IN  << [f EXCEPT !.pc = how,
                   !.res = IF f.pc = "calling" THEN "failed" ELSE @] >>

Dirty(c) ==
  /\ clean' = [clean EXCEPT ![c] = FALSE]
  /\ diffs' = [diffs EXCEPT ![c] = <<>>]
  /\ last' = [last EXCEPT ![c] = NoEntry]
  /\ ncalls' = [ncalls EXCEPT ![c] = 0]

\* The hook of the application's write statement returns normally with the
\* context `ctx` computed: one more element of the sequence c1..cn.
NoteWrite(c, ctx) ==
  IF clean[c]
  THEN /\ diffs' = [diffs EXCEPT ![c] =
                      IF last[c] = NoEntry THEN @ ELSE Append(@, last[c] # ctx)]
       /\ last' = [last EXCEPT ![c] = ctx]
  ELSE UNCHANGED <<diffs, last>>

NoteCall(c) ==
  ncalls' = [ncalls EXCEPT ![c] = IF clean[c] THEN @ + 1 ELSE @]

\* --------------------------------------------------------------- actions
\* The application calls conn.execute(q) on connection c. A connection
\* runs one statement at a time.
Execute(t, c, q) ==
  /\ stack[t] = <<>>
  /\ ~Busy(c)
  /\ Started < MaxStmts
  /\ stack' = [stack EXCEPT ![t] = <<NewFrame(c, q, <<>>)>>]
  /\ stmts' = [stmts EXCEPT ![c] = @ + 1]
  /\ UNCHANGED <<cxn_current_context, session, ncalls, diffs, last, clean>>

\* the early return of line 52 left out
AfterClassifyNoReturn(query) == "provider"

\* lines 50-52: a statement that is no write returns at once
AfterClassify(query) ==
  IF IsInsertOrUpdate(query) THEN "provider" ELSE "returned"

Classify(t) ==
  /\ stack[t] # <<>>
  /\ Top(t).pc = "classify"
  /\ stack' = [stack EXCEPT ![t][Len(stack[t])].pc = AfterClassify(Top(t).query)]
  /\ UNCHANGED <<cxn_current_context, session, stmts, ncalls, diffs, last, clean>>

\* lines 54-55: the provider returns, and the context is serialized
ProviderReturns(t, e) ==
  /\ stack[t] # <<>>
  /\ Top(t).pc = "provider"
  /\ LET r == get_change_logs_context(e)
     IN  stack' = [stack EXCEPT ![t][Len(stack[t])] =
                     [@ EXCEPT !.pc = "compare", !.prov = "ok",
                               !.user_id = r[1],
                               !.change_context = r[2],
                               !.change_context_str = JsonDumps(r[2])]]
  /\ UNCHANGED <<cxn_current_context, session, stmts, ncalls, diffs, last, clean>>

\* The mappings a provider customized for an application may return: the
\* keys it has put into the dict, in the order it has put them.
Dicts ==
  { <<>>,
    << <<"endpoint", "/x">> >>,
    << <<"task", "job">> >>,
    << <<"endpoint", "/x">>, <<"task", "job">> >>,
    << <<"task", "job">>, <<"endpoint", "/x">> >> }

\* lines 54-55 with a provider customized as its docstring invites to: it
\* returns user u and the mapping d
ProviderReturnsDict(t, u, d) ==
  /\ stack[t] # <<>>
  /\ Top(t).pc = "provider"
  /\ stack' = [stack EXCEPT ![t][Len(stack[t])] =
                 [@ EXCEPT !.pc = "compare", !.prov = "ok",
                           !.user_id = u,
                           !.change_context = d,
                           !.change_context_str = JsonDumps(d)]]
  /\ UNCHANGED <<cxn_current_context, session, stmts, ncalls, diffs, last, clean>>

\* the provider's error caught, the write going on without an actor
ProviderErrorSwallowed(t) ==
  /\ stack[t] # <<>>
  /\ Top(t).pc = "provider"
  /\ stack' = [stack EXCEPT ![t][Len(stack[t])] =
                 [@ EXCEPT !.pc = "compare", !.prov = "failed",
                           !.user_id = "None", !.change_context_str = "{}"]]
  /\ UNCHANGED <<cxn_current_context, session, stmts, ncalls, diffs, last, clean>>

\* line 54: the provider raises (one of the functions it calls fails)
ProviderRaises(t) ==
  /\ stack[t] # <<>>
  /\ Top(t).pc = "provider"
  /\ stack' = [stack EXCEPT ![t] =
                 Unwind([@ EXCEPT ![Len(@)].prov = "failed"], "raised")]
  /\ Dirty(Top(t).conn)
  /\ UNCHANGED <<cxn_current_context, session, stmts>>

\* the comparison of line 58 never finding the context unchanged
SameContextNever(cached, user_id, change_context_str) == FALSE

\* the comparison of line 58 looking at the user only
SameContextUserOnly(cached, user_id, change_context_str) ==
  cached # NoEntry /\ cached[1] = user_id

\* line 58: the context is the one the cache holds for the connection
SameContext(cached, user_id, change_context_str) ==
  cached = <<user_id, change_context_str>>

\* lines 57-59: nothing to do when the connection has the context already
Compare(t) ==
  /\ stack[t] # <<>>
  /\ Top(t).pc = "compare"
  /\ LET f == Top(t)
         cached == cxn_current_context[f.conn]
         same == SameContext(cached, f.user_id, f.change_context_str)
     IN  /\ stack' = [stack EXCEPT ![t][Len(stack[t])] =
                        [@ EXCEPT !.seen = cached,
                                  !.pc = IF same THEN "returned" ELSE "put"]]
         /\ IF same /\ Len(stack[t]) = 1
            THEN NoteWrite(f.conn, <<f.user_id, f.change_context_str>>)
            ELSE UNCHANGED <<diffs, last>>
  /\ UNCHANGED <<cxn_current_context, session, stmts, ncalls, clean>>

\* the cache keyed on something the connections share
PutAllConns(t) ==
  /\ stack[t] # <<>>
  /\ Top(t).pc = "put"
  /\ LET f == Top(t)
     IN  /\ cxn_current_context' =
              [c \in Conns |-> <<f.user_id, f.change_context_str>>]
         /\ stack' = [stack EXCEPT ![t][Len(stack[t])] =
                        [@ EXCEPT !.puts = @ + 1, !.pc = "call"]]
  /\ UNCHANGED <<session, stmts, ncalls, diffs, last, clean>>

\* line 61: the cache takes the new context
Put(t) ==
  /\ stack[t] # <<>>
  /\ Top(t).pc = "put"
  /\ LET f == Top(t)
     IN  /\ cxn_current_context' =
              [cxn_current_context EXCEPT
                 ![f.conn] = <<f.user_id, f.change_context_str>>]
         /\ stack' = [stack EXCEPT ![t][Len(stack[t])] =
                        [@ EXCEPT !.puts = @ + 1, !.pc = "call"]]
  /\ UNCHANGED <<session, stmts, ncalls, diffs, last, clean>>

\* the hook returning after line 61, the call of lines 63-66 not made
CallNotIssued(t) ==
  /\ stack[t] # <<>>
  /\ Top(t).pc = "call"
  /\ stack' = [stack EXCEPT ![t][Len(stack[t])].pc = "returned"]
  /\ IF Len(stack[t]) = 1
     THEN NoteWrite(Top(t).conn, <<Top(t).user_id, Top(t).change_context_str>>)
     ELSE UNCHANGED <<diffs, last>>
  /\ UNCHANGED <<cxn_current_context, session, stmts, ncalls, clean>>

\* the call made without the user: None passed as first parameter
CallWithoutUser(t) ==
  /\ stack[t] # <<>>
  /\ Top(t).pc = "call"
  /\ LET f == Top(t)
     IN  IF Len(stack[t]) >= MaxDepth
         THEN /\ stack' = [stack EXCEPT ![t] = Unwind(@, "raised")]
              /\ Dirty(f.conn)
         ELSE /\ stack' = [stack EXCEPT ![t] =
                   Append([@ EXCEPT ![Len(@)] =
                             [f EXCEPT !.calls = @ + 1, !.pc = "calling"]],
                          NewFrame(f.conn, SetContextQuery,
                                   <<"None", f.change_context_str>>))]
              /\ NoteCall(f.conn)
              /\ UNCHANGED <<diffs, last, clean>>
  /\ UNCHANGED <<cxn_current_context, session, stmts>>

\* lines 63-66: conn.execute("select change_logs_set_context(%s, %s)", ...)
\* on the same connection; the statement goes through the hook like any other
Call(t) ==
  /\ stack[t] # <<>>
  /\ Top(t).pc = "call"
  /\ LET f == Top(t)
     IN  IF Len(stack[t]) >= MaxDepth
         THEN /\ stack' = [stack EXCEPT ![t] = Unwind(@, "raised")]
              /\ Dirty(f.conn)
         ELSE /\ stack' = [stack EXCEPT ![t] =
                   Append([@ EXCEPT ![Len(@)] =
                             [f EXCEPT !.calls = @ + 1, !.pc = "calling"]],
                          NewFrame(f.conn, SetContextQuery,
                                   <<f.user_id, f.change_context_str>>))]
              /\ NoteCall(f.conn)
              /\ UNCHANGED <<diffs, last, clean>>
  /\ UNCHANGED <<cxn_current_context, session, stmts>>

\* What a statement that ran does to the session of its connection:
\* change_logs_set_context(user_id, context) sets the session's context.
Effect(f, s) ==
  IF f.query = SetContextQuery THEN [s EXCEPT ![f.conn] = f.args] ELSE s

\* The hook has returned: the statement runs on the database and succeeds.
\* When it is the hook's own statement, the hook that issued it goes on to
\* its end (line 66) and returns.
CursorExecute(t) ==
  /\ stack[t] # <<>>
  /\ Top(t).pc = "returned"
  /\ LET f == Top(t)
         n == Len(stack[t])
     IN  /\ session' = Effect(f, session)
         /\ IF n = 1
            THEN /\ stack' = [stack EXCEPT ![t][1].pc = "executed"]
                 /\ UNCHANGED <<diffs, last>>
            ELSE /\ stack' = [stack EXCEPT ![t] =
                      [SubSeq(@, 1, n - 1) EXCEPT ![n - 1] =
                         [@ EXCEPT !.pc = "returned", !.res = "ok"]]]
                 /\ IF n = 2
                    THEN NoteWrite(f.conn, <<stack[t][1].user_id,
                                             stack[t][1].change_context_str>>)
                    ELSE UNCHANGED <<diffs, last>>
  /\ UNCHANGED <<cxn_current_context, stmts, ncalls, clean>>

\* the error of the hook's own statement caught inside the hook
CursorFailsSwallowed(t) ==
  /\ stack[t] # <<>>
  /\ Top(t).pc = "returned"
  /\ LET n == Len(stack[t])
     IN  IF n = 1
         THEN stack' = [stack EXCEPT ![t][1].pc = "failed"]
         ELSE stack' = [stack EXCEPT ![t] =
                [SubSeq(@, 1, n - 1) EXCEPT ![n - 1] =
                   [@ EXCEPT !.pc = "returned", !.res = "failed"]]]
  /\ Dirty(Top(t).conn)
  /\ UNCHANGED <<cxn_current_context, session, stmts>>

\* the failure handled by deleting the cache entry of the connection
CursorFailsDropsEntry(t) ==
  /\ stack[t] # <<>>
  /\ Top(t).pc = "returned"
  /\ stack' = [stack EXCEPT ![t] =
                 Unwind(@, IF Len(@) = 1 THEN "failed" ELSE "raised")]
  /\ cxn_current_context' = [cxn_current_context EXCEPT ![Top(t).conn] = NoEntry]
  /\ Dirty(Top(t).conn)
  /\ UNCHANGED <<session, stmts>>

\* The hook has returned: the statement runs on the database and fails.
CursorFails(t) ==
  /\ stack[t] # <<>>
  /\ Top(t).pc = "returned"
  /\ stack' = [stack EXCEPT ![t] =
                 Unwind(@, IF Len(@) = 1 THEN "failed" ELSE "raised")]
  /\ Dirty(Top(t).conn)
  /\ UNCHANGED <<cxn_current_context, session, stmts>>

\* The surrounding operation is cancelled once the hook has found a call
\* needed and before the call has completed (before line 61, between lines
\* 61 and 63, or inside conn.execute): the exception raised in the thread
\* leaves the hook, which has no handler and no cleanup.
Cancel(t) ==
  /\ stack[t] # <<>>
  /\ stack[t][1].pc \in {"put", "call", "calling"}
  /\ stack' = [stack EXCEPT ![t] =
                 << [@[1] EXCEPT !.pc = "raised", !.res = "cancelled"] >>]
  /\ Dirty(stack[t][1].conn)
  /\ UNCHANGED <<cxn_current_context, session, stmts>>

\* The connection object of key c is no longer referenced: the
\* WeakKeyDictionary of line 34 drops its entry. The next connection under
\* this name is a new one, with a new database session.
ConnectionGone(c) ==
  /\ ~Busy(c)
  /\ stmts[c] > 0
  /\ cxn_current_context[c] # NoEntry \/ session[c] # NoEntry \/ ~clean[c]
  /\ cxn_current_context' = [cxn_current_context EXCEPT ![c] = NoEntry]
  /\ session' = [session EXCEPT ![c] = NoEntry]
  /\ clean' = [clean EXCEPT ![c] = TRUE]
  /\ ncalls' = [ncalls EXCEPT ![c] = 0]
  /\ diffs' = [diffs EXCEPT ![c] = <<>>]
  /\ last' = [last EXCEPT ![c] = NoEntry]
  /\ UNCHANGED <<stack, stmts>>

\* conn.execute() of the application is over
Finish(t) ==
  /\ Len(stack[t]) = 1
  /\ stack[t][1].pc \in {"executed", "failed", "raised"}
  /\ stack' = [stack EXCEPT ![t] = <<>>]
  /\ UNCHANGED <<cxn_current_context, session, stmts, ncalls, diffs, last, clean>>

\* one step of thread t
Step(t) ==
  \/ \E c \in Conns : \E q \in Queries : Execute(t, c, q) /\ UNCHANGED pool
  \/ Classify(t) /\ UNCHANGED pool
  \/ \E e \in Envs : ProviderReturns(t, e) /\ UNCHANGED pool
  \/ ProviderRaises(t) /\ UNCHANGED pool
  \/ Compare(t) /\ UNCHANGED pool
  \/ Put(t) /\ UNCHANGED pool
  \/ Call(t) /\ UNCHANGED pool
  \/ CursorExecute(t) /\ UNCHANGED pool
  \/ CursorFails(t) /\ UNCHANGED pool
  \/ Finish(t) /\ UNCHANGED pool

\* One thread of the application uses the connections, one statement after
\* the other: the hooks of a connection run one at a time.
Next == Step("t1")

Spec == Init /\ [][Next]_vars

\* Separate threads drive distinct connections at the same time: their
\* hook invocations interleave line by line, and a connection still runs
\* one statement at a time (the guard of Execute).
ConcStep(t) ==
  \/ /\ Started < MaxConcStmts
     /\ \E c \in Conns : \E q \in Queries : Execute(t, c, q)
     /\ UNCHANGED pool
  \/ Classify(t) /\ UNCHANGED pool
  \/ \E e \in Envs : ProviderReturns(t, e) /\ UNCHANGED pool
  \/ ProviderRaises(t) /\ UNCHANGED pool
  \/ Compare(t) /\ UNCHANGED pool
  \/ Put(t) /\ UNCHANGED pool
  \/ Call(t) /\ UNCHANGED pool
  \/ CursorExecute(t) /\ UNCHANGED pool
  \/ CursorFails(t) /\ UNCHANGED pool
  \/ Finish(t) /\ UNCHANGED pool

NextConc == \E t \in Threads : ConcStep(t)

\* One thread, and a provider that returns any of the mappings of Dicts.
DictStep(t) ==
  \/ /\ Started < MaxDictStmts
     /\ \E c \in Conns : \E q \in Queries : Execute(t, c, q)
     /\ UNCHANGED pool
  \/ Classify(t) /\ UNCHANGED pool
  \/ \E u \in {"42", "7"} : \E d \in Dicts : ProviderReturnsDict(t, u, d) /\ UNCHANGED pool
  \/ ProviderRaises(t) /\ UNCHANGED pool
  \/ Compare(t) /\ UNCHANGED pool
  \/ Put(t) /\ UNCHANGED pool
  \/ Call(t) /\ UNCHANGED pool
  \/ CursorExecute(t) /\ UNCHANGED pool
  \/ CursorFails(t) /\ UNCHANGED pool
  \/ Finish(t) /\ UNCHANGED pool

NextDict == DictStep("t1")

SpecDict == Init /\ [][NextDict]_vars

\* One thread, whose operation may be cancelled while the hook synchronizes.
CancelStep(t) ==
  \/ /\ Started < MaxCancelStmts
     /\ \E c \in Conns : \E q \in Queries : Execute(t, c, q)
     /\ UNCHANGED pool
  \/ Classify(t) /\ UNCHANGED pool
  \/ \E e \in Envs : ProviderReturns(t, e) /\ UNCHANGED pool
  \/ ProviderRaises(t) /\ UNCHANGED pool
  \/ Compare(t) /\ UNCHANGED pool
  \/ Put(t) /\ UNCHANGED pool
  \/ Call(t) /\ UNCHANGED pool
  \/ Cancel(t) /\ UNCHANGED pool
  \/ CursorExecute(t) /\ UNCHANGED pool
  \/ CursorFails(t) /\ UNCHANGED pool
  \/ Finish(t) /\ UNCHANGED pool

NextCancel == CancelStep("t1")

SpecCancel == Init /\ [][NextCancel]_vars

\* One thread, and connections that cease to exist between statements.
LifeStep(t) ==
  \/ /\ Started < MaxLifeStmts
     /\ \E c \in Conns : \E q \in Queries : Execute(t, c, q)
     /\ UNCHANGED pool
  \/ Classify(t) /\ UNCHANGED pool
  \/ \E e \in Envs : ProviderReturns(t, e) /\ UNCHANGED pool
  \/ ProviderRaises(t) /\ UNCHANGED pool
  \/ Compare(t) /\ UNCHANGED pool
  \/ Put(t) /\ UNCHANGED pool
  \/ Call(t) /\ UNCHANGED pool
  \/ CursorExecute(t) /\ UNCHANGED pool
  \/ CursorFails(t) /\ UNCHANGED pool
  \/ Finish(t) /\ UNCHANGED pool

NextLife ==
  \/ LifeStep("t1")
  \/ \E c \in Conns : ConnectionGone(c) /\ UNCHANGED pool

SpecLife == Init /\ [][NextLife]_vars

SpecConc == Init /\ [][NextConc]_vars

\* -------------------------------------------- a connection shared
\* A thread calls conn.execute(q) on a connection another thread may be
\* using: nothing in the hook keeps two invocations on one key apart.
ExecuteShared(t, c, q) ==
  /\ stack[t] = <<>>
  /\ Started < MaxRaceStmts
  /\ stack' = [stack EXCEPT ![t] = <<NewFrame(c, q, <<>>)>>]
  /\ stmts' = [stmts EXCEPT ![c] = @ + 1]
  /\ UNCHANGED <<cxn_current_context, session, ncalls, diffs, last, clean, pool>>

RaceStep(t) ==
  \/ \E c \in Conns : \E q \in Queries : ExecuteShared(t, c, q)
  \/ Classify(t) /\ UNCHANGED pool
  \/ \E e \in Envs : ProviderReturns(t, e) /\ UNCHANGED pool
  \/ ProviderRaises(t) /\ UNCHANGED pool
  \/ Compare(t) /\ UNCHANGED pool
  \/ Put(t) /\ UNCHANGED pool
  \/ Call(t) /\ UNCHANGED pool
  \/ CursorExecute(t) /\ UNCHANGED pool
  \/ CursorFails(t) /\ UNCHANGED pool
  \/ Finish(t) /\ UNCHANGED pool

NextRace == \E t \in Threads : RaceStep(t)

SpecRace == Init /\ [][NextRace]_vars

\* ------------------------------------------- texts for the classifier
\* pieces of statement text: the keywords in lower, upper and mixed case,
\* letters and an underscore that make a longer identifier, separators
Tokens ==
  { <<"i","n","s","e","r","t">>,
    <<"U","P","D","A","T","E">>,
    <<"D","e","l","e","t","e">>,
    <<"e","d">>,
    <<"x">>,
    <<"_">>,
    <<" ">>,
    <<"(">> }

RECURSIVE TextsOf(_)
TextsOf(n) ==
  IF n = 0 THEN { <<>> }
  ELSE LET S == TextsOf(n - 1)
       IN  S \cup { tk \o tx : tk \in Tokens, tx \in S }

\* the statement texts of at most MaxTokens pieces
Texts == TextsOf(MaxTokens)

\* Any text is submitted on a connection, and the hook classifies it.
NextClassify ==
  \/ \E q \in Texts : Execute("t1", "c1", q) /\ UNCHANGED pool
  \/ Classify("t1") /\ UNCHANGED pool

SpecClassify == Init /\ [][NextClassify]_vars

\* ----------------------------------------------- pooled connections
\* A logical caller checks a connection out of the pool. The raw connection
\* of line 57 is the same object for every caller that gets it. The callers
\* come one after the other.
Checkout(t, c) ==
  /\ stack[t] = <<>>
  /\ \A d \in Conns : pool.holder[d] = "pool"
  /\ pool' = [pool EXCEPT !.holder[c] = t]
  /\ UNCHANGED <<cxn_current_context, session, stack, stmts, ncalls, diffs, last, clean>>

\* the cache keyed on the Connection object of the checkout (conn) instead
\* of raw_conn: the entry goes when the checkout ends
ReleaseDropsEntry(t, c) ==
  /\ stack[t] = <<>>
  /\ pool.holder[c] = t
  /\ pool' = [pool EXCEPT !.holder[c] = "pool", !.txn[c] = FALSE]
  /\ cxn_current_context' = [cxn_current_context EXCEPT ![c] = NoEntry]
  /\ UNCHANGED <<session, stack, stmts, ncalls, diffs, last, clean>>

\* The caller gives the connection back: its transaction ends, the raw
\* connection and the session stay (lines 47-48, 57).
Release(t, c) ==
  /\ stack[t] = <<>>
  /\ pool.holder[c] = t
  /\ pool' = [pool EXCEPT !.holder[c] = "pool", !.txn[c] = FALSE]
  /\ UNCHANGED <<cxn_current_context, session, stack, stmts, ncalls, diffs, last, clean>>

\* The caller commits or rolls back: no statement goes through the hook,
\* and the session's context persists across transactions (lines 47-48).
EndTransaction(t, c) ==
  /\ stack[t] = <<>>
  /\ pool.holder[c] = t
  /\ pool.txn[c]
  /\ pool' = [pool EXCEPT !.txn[c] = FALSE]
  /\ UNCHANGED <<cxn_current_context, session, stack, stmts, ncalls, diffs, last, clean>>

\* a step of thread t on the connection it has checked out
PoolStep(t) ==
  \/ \E c \in Conns : Checkout(t, c)
  \/ \E c \in Conns : Release(t, c)
  \/ \E c \in Conns : EndTransaction(t, c)
  \/ \E c \in Conns : \E q \in Queries :
       /\ Started < MaxPoolStmts
       /\ pool.holder[c] = t
       /\ Execute(t, c, q)
       /\ pool' = [pool EXCEPT !.txn[c] = TRUE]
  \/ Classify(t) /\ UNCHANGED pool
  \/ \E e \in Envs : ProviderReturns(t, e) /\ UNCHANGED pool
  \/ ProviderRaises(t) /\ UNCHANGED pool
  \/ Compare(t) /\ pool' = [pool EXCEPT !.met[t] = pool.putby[Top(t).conn]]
  \/ Put(t) /\ pool' = [pool EXCEPT !.putby[Top(t).conn] = t]
  \/ Call(t) /\ UNCHANGED pool
  \/ CursorExecute(t) /\ UNCHANGED pool
  \/ CursorFails(t) /\ UNCHANGED pool
  \/ Finish(t) /\ UNCHANGED pool

NextPool == \E t \in Threads : PoolStep(t)

SpecPool == Init /\ [][NextPool]_vars

\* ================================================================ claims
Computed(f) == <<f.user_id, f.change_context_str>>

\* every conn.execute() call in progress
Frames == UNION { { stack[t][i] : i \in 1..Len(stack[t]) } : t \in Threads }

\* the application's statements in progress
AppFrames == { stack[t][1] : t \in { u \in Threads : stack[u] # <<>> } }

\* the classifier's verdict on the statements of the model
IsWrite == [q \in Queries \cup {SetContextQuery} |-> IsInsertOrUpdate(q)]

\* the hook of the statement has returned normally
HookReturned(f) == f.pc \in {"returned", "executed", "failed"}

\* the hook of the statement is over
HookOver(f) == f.pc \in {"returned", "executed", "failed", "raised"}

\* C1: whenever the hook returns normally for a write statement, the context
\* set in the connection's database session is the (identity, serialized
\* context) the provider returned during that invocation. The code breaks
\* this after a failed call: the cache keeps the context that was not set.
C1_WriteUnderComputedContext ==
  \A f \in AppFrames :
    (HookReturned(f) /\ IsWrite[f.query])
      => session[f.conn] = Computed(f)

\* C2: for a statement that is no write the hook is a no-op: the provider is
\* not called, no call is issued, no cache entry is put, and the cache entry
\* of the connection is the one it was when the statement began.
C2_NonWriteNoOp ==
  \A f \in Frames :
    ~IsWrite[f.query]
      => /\ f.prov = "none"
         /\ f.calls = 0
         /\ f.puts = 0
         /\ f.seen = <<"unread">>
         /\ cxn_current_context[f.conn] = f.before

C2_Witness ==
  \E f \in AppFrames :
    /\ f.query = Q_INSERTED
    /\ f.pc = "executed"
    /\ cxn_current_context[f.conn] # NoEntry

\* C3: a write whose computed (identity, serialized context) equals the
\* connection's cache entry issues no call and leaves the cache unchanged.
C3_UnchangedContextNoCall ==
  \A f \in Frames :
    (f.seen = Computed(f) /\ IsWrite[f.query])
      => /\ f.calls = 0
         /\ f.puts = 0
         /\ HookReturned(f)
         /\ cxn_current_context[f.conn] = f.seen

C3_Witness ==
  \E f \in AppFrames :
    /\ IsWrite[f.query]
    /\ f.seen = Computed(f)
    /\ f.pc = "executed"

\* C4: a write whose cache entry is absent or differs from the computed
\* (identity, serialized context), in the identity or in the context, issues
\* exactly one call, and afterwards the cache entry is the computed value.
C4_ChangedContextOneCall ==
  \A f \in Frames :
    (HookOver(f) /\ f.seen # <<"unread">> /\ f.seen # Computed(f)
       /\ IsWrite[f.query])
      => /\ f.calls = 1
         /\ f.puts = 1
         /\ cxn_current_context[f.conn] = Computed(f)

\* the context alone differs from the cached one
C4_Witness ==
  \E f \in AppFrames :
    /\ IsWrite[f.query]
    /\ f.seen \notin {NoEntry, <<"unread">>}
    /\ f.seen[1] = f.user_id
    /\ f.seen[2] # f.change_context_str
    /\ f.pc = "executed"
    /\ f.calls = 1

RECURSIVE CountTrue(_)
CountTrue(bs) ==
  IF bs = <<>> THEN 0
  ELSE (IF Head(bs) THEN 1 ELSE 0) + CountTrue(Tail(bs))

\* C5: after a sequence of successful writes on a fresh connection, with
\* reads in between or not, the calls issued on it number 1 plus the
\* positions where the computed context differs from the one before.
C5_CallsCountSwitches ==
  \A c \in Conns :
    (clean[c] /\ last[c] # NoEntry /\ ~Busy(c))
      => ncalls[c] = 1 + CountTrue(diffs[c])

\* the sequence [A, A, B, B, A] and its 3 calls
C5_Witness ==
  \E c \in Conns :
    /\ clean[c] /\ ~Busy(c)
    /\ diffs[c] = <<FALSE, TRUE, FALSE, TRUE>>
    /\ ncalls[c] = 3
    /\ last[c] = cxn_current_context[c]

\* C6: when a call is needed, it is issued and has completed on the same
\* connection before the write reaches the database.
C6_CallBeforeWrite ==
  \A f \in AppFrames :
    (HookReturned(f) /\ f.puts = 1 /\ IsWrite[f.query])
      => /\ f.calls = 1
         /\ f.res = "ok"
         /\ session[f.conn] = Computed(f)

C6_Witness ==
  \E f \in AppFrames :
    /\ IsWrite[f.query]
    /\ f.puts = 1
    /\ f.res = "ok"
    /\ f.pc = "executed"

\* C7: if the call fails, the cache entry of the connection is the one it
\* was before the hook invocation began. The code has stored the new
\* context at line 61 already and does not take it back.
C7_FailedCallCacheUnmodified ==
  \A f \in Frames :
    f.res = "failed" => cxn_current_context[f.conn] = f.before

\* C8: a failed call leaves the hook as an exception: the hook does not
\* return normally and the guarded write is not executed.
C8_FailedCallPropagates ==
  \A f \in Frames :
    f.res = "failed" => f.pc = "raised"

C8_Witness ==
  \E f \in AppFrames :
    /\ IsWrite[f.query]
    /\ f.res = "failed"
    /\ f.pc = "raised"

\* C9: if the provider fails during a write's hook, the error propagates,
\* no call is issued, the cache is unchanged and the write is not executed.
C9_ProviderFailsClosed ==
  \A f \in Frames :
    f.prov = "failed"
      => /\ f.pc = "raised"
         /\ f.calls = 0
         /\ f.puts = 0
         /\ cxn_current_context[f.conn] = f.before

C9_Witness ==
  \E f \in AppFrames :
    /\ IsWrite[f.query]
    /\ f.prov = "failed"
    /\ f.pc = "raised"
    /\ f.before # NoEntry

\* C10: between hook invocations, a connection with a cache entry has
\* exactly that context set in its database session. The code breaks this
\* after a failed call (the cache update of C7).
C10_CacheMatchesSession ==
  \A c \in Conns :
    (~Busy(c) /\ cxn_current_context[c] # NoEntry)
      => session[c] = cxn_current_context[c]

\* C11: with two live connections driven by interleaved hook invocations of
\* separate threads, an invocation reads and changes the cache entry of its
\* own connection only and issues its call on its own connection; the
\* entry of a connection is the context last computed for a write on it, and
\* the first write on a connection issues a call whatever the other
\* connection caches.
C11_ConnectionsIndependent ==
  \A t \in Threads : \A i \in 1..Len(stack[t]) :
    LET f == stack[t][i]
    IN  /\ f.conn = stack[t][1].conn
        /\ f.seen # <<"unread">> => f.seen = f.before
        /\ cxn_current_context[f.conn] =
             (IF f.puts = 0 THEN f.before ELSE Computed(f))
        /\ (HookOver(f) /\ f.prov = "ok")
             => cxn_current_context[f.conn] = Computed(f)
        /\ (HookOver(f) /\ f.prov = "ok" /\ f.before = NoEntry)
             => f.calls = 1

\* a first write has issued its call while the other connection, in use by
\* the other thread, caches the very same context
C11_Witness ==
  \E f \in AppFrames : \E g \in AppFrames :
    /\ f.conn # g.conn
    /\ f.before = NoEntry
    /\ f.calls = 1
    /\ f.pc = "executed"
    /\ g.puts = 1
    /\ g.pc = "calling"
    /\ Computed(g) = Computed(f)
    /\ cxn_current_context[g.conn] = cxn_current_context[f.conn]

\* the same key/value pairs, whatever the order they were inserted in
SameMapping(d1, d2) ==
  { d1[i] : i \in 1..Len(d1) } = { d2[i] : i \in 1..Len(d2) }

\* C12: a write whose provider returns the user and the key/value pairs the
\* cache entry was made from, in whatever insertion order, has the
\* serialized string of the entry and issues no call. json.dumps() keeps the
\* insertion order, so the code serializes the two orders differently.
C12_OrderIndependent ==
  \A f \in Frames :
    (/\ f.seen \notin {NoEntry, <<"unread">>}
     /\ f.seen[1] = f.user_id
     /\ \E d \in Dicts : JsonDumps(d) = f.seen[2] /\ SameMapping(d, f.change_context))
      => /\ f.change_context_str = f.seen[2]
         /\ f.puts = 0
         /\ f.calls = 0

\* C13: if the operation is cancelled after the hook has started a needed
\* synchronization and before the call completes, the cache entry of the
\* connection is not updated to the new context and the guarded write does
\* not execute. The code has updated the entry at line 61 by then (C7).
C13_CancelLeavesCache ==
  \A f \in Frames :
    f.res = "cancelled"
      => /\ f.pc = "raised"
         /\ cxn_current_context[f.conn] = f.before

\* C14: per connection the cache goes from no entry to an entry and never
\* back while the connection lives: no step of a hook invocation (read,
\* write, deduplicated write, failed call) removes an entry, an entry is one
\* (identity, serialized context) pair, and it goes only with its connection.
C14_NeverBackToUnset ==
  [][\A c \in Conns :
       /\ cxn_current_context'[c] # NoEntry => Len(cxn_current_context'[c]) = 2
       /\ cxn_current_context[c] # NoEntry
            => \/ cxn_current_context'[c] # NoEntry
               \/ ConnectionGone(c)]_vars

\* a call has failed on a connection that had an entry, and has one still
C14_Witness ==
  \E f \in AppFrames :
    /\ f.before # NoEntry
    /\ f.res = "failed"
    /\ f.pc = "raised"
    /\ cxn_current_context[f.conn] # NoEntry

\* C15: the cache is keyed on the physical connection: ending a transaction
\* and handing the connection to another logical caller leave every entry
\* unchanged, so a write of a new caller on a reused connection issues no
\* call when its (identity, context) is the cached one, and exactly one call
\* when the identity or the context differs.
C15_KeyedOnPhysicalConnection ==
  /\ [](\A t \in Threads :
          stack[t] # <<>> =>
            LET f == stack[t][1]
            IN  (/\ HookOver(f)
                 /\ f.seen \notin {NoEntry, <<"unread">>}
                 /\ pool.met[t] \notin {t, "nobody"}
                 /\ IsWrite[f.query])
                  => IF f.seen = Computed(f)
                     THEN f.calls = 0 /\ f.puts = 0
                     ELSE /\ f.calls = 1
                          /\ cxn_current_context[f.conn] = Computed(f))
  /\ [][(pool'.holder # pool.holder \/ pool'.txn # pool.txn)
          => cxn_current_context' = cxn_current_context]_vars

\* a caller's write on a connection whose entry another caller has stored,
\* with the same context: no call
C15_Witness ==
  \E t \in Threads :
    /\ stack[t] # <<>>
    /\ stack[t][1].pc = "executed"
    /\ IsWrite[stack[t][1].query]
    /\ pool.met[t] \notin {t, "nobody"}
    /\ stack[t][1].seen = Computed(stack[t][1])
    /\ stack[t][1].calls = 0
    /\ pool.txn[stack[t][1].conn]

\* positions i..j of the text are one of its words: a maximal run of
\* letters, digits and underscores
IsWordSpan(q, i, j) ==
  /\ i <= j
  /\ \A k \in i..j : Lower(q[k]) \in WordChars
  /\ i = 1 \/ Lower(q[i - 1]) \notin WordChars
  /\ j = Len(q) \/ Lower(q[j + 1]) \notin WordChars

\* one of the words of the text is insert, update or delete, in any case
HasKeywordWord(q) ==
  \E i \in 1..Len(q) : \E j \in i..Len(q) :
    /\ IsWordSpan(q, i, j)
    /\ [k \in 1..(j - i + 1) |-> Lower(q[i + k - 1])] \in Keywords

\* C16: the classifier says write exactly for the texts that contain insert,
\* update or delete as a standalone word, in any letter case and at any
\* position; a text where these letters are part of a longer identifier
\* only is no write.
C16_ClassifierWholeWord ==
  \A f \in Frames :
    f.pc # "classify" => ((f.pc = "provider") <=> HasKeywordWord(f.query))

\* a keyword in upper case after another word and a separator
C16_Witness ==
  \E f \in Frames :
    /\ f.query = <<"x", " ", "U","P","D","A","T","E">>
    /\ f.pc = "provider"

\* C17: when the hook invocations of two writes with different computed
\* contexts interleave on one connection, then once both have completed
\* the cache entry of the connection is the context their calls have set
\* last in the database session. The put of line 61 and the call of lines
\* 63-66 are two steps, so the code lets the two orders differ.
C17_RaceKeepsCacheTrue ==
  \A t \in Threads : \A u \in Threads \ {t} :
    (/\ stack[t] # <<>> /\ stack[u] # <<>>
     /\ stack[t][1].conn = stack[u][1].conn
     /\ stack[t][1].pc = "executed" /\ stack[u][1].pc = "executed"
     /\ stack[t][1].calls = 1 /\ stack[u][1].calls = 1
     /\ Computed(stack[t][1]) # Computed(stack[u][1]))
      => cxn_current_context[stack[t][1].conn] = session[stack[t][1].conn]

\* C18: the call of lines 63-66 is a statement on the hooked connection and
\* goes through the hook again; its text is no write, so the nested
\* invocation returns at once, without the provider, the cache or a further
\* call, and no invocation has more than one nested invocation under it.
C18_NestedInvocationReturns ==
  \A t \in Threads :
    /\ Len(stack[t]) <= 2
    /\ \A i \in 2..Len(stack[t]) :
         LET f == stack[t][i]
         IN  /\ f.query = SetContextQuery
             /\ f.conn = stack[t][1].conn
             /\ f.pc \in {"classify", "returned"}
             /\ f.prov = "none"
             /\ f.seen = <<"unread">>
             /\ f.puts = 0
             /\ f.calls = 0
             /\ cxn_current_context[f.conn] = f.before

\* the nested invocation has returned and its statement is about to run
C18_Witness ==
  \E t \in Threads :
    /\ Len(stack[t]) = 2
    /\ stack[t][1].pc = "calling"
    /\ stack[t][2].query = SetContextQuery
    /\ stack[t][2].pc = "returned"

\* C19: the parameters of every call the hook issues are the (identity,
\* serialized context) pair the same invocation has just stored in the
\* cache entry of the connection.
C19_CallCarriesCachedPair ==
  \A t \in Threads : \A i \in 1..Len(stack[t]) :
    LET f == stack[t][i]
    IN  f.pc = "calling"
          => /\ i < Len(stack[t])
             /\ f.puts = 1
             /\ stack[t][i + 1].args = Computed(f)
             /\ stack[t][i + 1].args = cxn_current_context[f.conn]
             /\ stack[t][i + 1].conn = f.conn

\* a call for a user is on its way to the database
C19_Witness ==
  \E t \in Threads :
    /\ Len(stack[t]) = 2
    /\ stack[t][1].pc = "calling"
    /\ stack[t][2].pc = "returned"
    /\ stack[t][2].args[1] = "42"
    /\ stack[t][2].args = cxn_current_context[stack[t][1].conn]
    /\ session[stack[t][1].conn] # stack[t][2].args

====
